---- MODULE Spec2Model ----
(***************************************************************************)
(* fruently: one Fluent client, from construction through one post call.   *)
(*                                                                         *)
(*   src/src/fluent.rs            Fluent::new / new_with_conf, the three   *)
(*                                closure_send_as_* transport closures     *)
(*   src/src/forwardable/json.rs  JsonForwardable::post / post_with_time   *)
(*                                                                         *)
(* post(self, ..) consumes the client, so a client performs one post call. *)
(* The retry loop is the `retry` crate's retry_exponentially, driven with  *)
(* the arguments of json.rs:50-55; RetryConf and                           *)
(* store_buffer::maybe_write_events live in files that are not under src/  *)
(* and are modelled from the specification (sections 3 and 4.5).           *)
(***************************************************************************)
EXTENDS Integers, Sequences, FiniteSets, TLC

VARIABLES
    pc,          \* position of the program
    ctor,        \* the constructor call that was made (arguments as given)
    client,      \* the Fluent value: addr, tag, conf
    mode,        \* which closure the post call drives: json, msgpack, forward
    record,      \* the Record built by post_with_time
    tries,       \* max_retry handed to retry_exponentially
    multiplier,  \* multiplier handed to retry_exponentially
    try,         \* the retry loop's attempt counter
    value,       \* the closure's last return value
    results,     \* return values of the closure invocations so far, in order
    sendCalls,   \* number of closure invocations
    conn,        \* the TcpStream of the current invocation: none, open, closed
    connsOpened, \* number of successful TcpStream::connect calls
    message,     \* the encoded bytes of the current invocation
    wr_result,   \* result of the write / serialize step
    received,    \* bytes the current connection accepted
    sleeps,      \* delays slept by the retry loop, in order
    retryRet,    \* what retry_exponentially returned
    fallback,    \* call of maybe_write_events: its error argument and outcome
    bufferFile0, \* contents of the buffer file before the post call
    bufferFile,  \* contents of the buffer file
    result,      \* what post returned
    streams,     \* every TcpStream the call opened: the attempt that opened it, whether it is open
    dial,        \* the TcpStream::connect call of the current invocation: candidates and outcome
    appender,    \* concurrent post calls that fall back to one buffer file: position, record
    lock,        \* holder of the buffer file's append lock, 0 when free
    sharedFile   \* the shared buffer file: the values written, each with its writer

vars == <<pc, ctor, client, mode, record, tries, multiplier, try, value, results,
          sendCalls, conn, connsOpened, message, wr_result, received, sleeps,
          retryRet, fallback, bufferFile0, bufferFile, result,
          streams, dial, appender, lock, sharedFile>>

\* the state of the concurrent appenders
concVars == <<appender, lock, sharedFile>>

\* the state of the single call
callVars == <<pc, ctor, client, mode, record, tries, multiplier, try, value, results,
              sendCalls, conn, connsOpened, message, wr_result, received, sleeps,
              retryRet, fallback, bufferFile0, bufferFile, result, streams, dial>>

----------------------------------------------------------------------------
(* Bounds of the model *)

\* largest max_attempts a configuration passed to new_with_conf carries
MaxAttempts == 3

\* max_attempts of RetryConf::new(); the value is set in retry_conf.rs, which
\* is not under src/, and the specification only requires it to be >= 1
DefaultMaxAttempts == 2

\* backoff multiplier of RetryConf::new(); same remark
DefaultMultiplier == 2

\* largest backoff multiplier a configuration passed to new_with_conf carries
MaxMultiplier == 3

\* number of post calls that run concurrently against one buffer file
NumCallers == 2

None == "None"

\* An IP literal, a host name with two addresses, a name that does not resolve
Addrs == {"127.0.0.1:24224", "localhost:24224", "unknown.invalid:24224"}

\* addr.to_socket_addrs(): the number of candidate endpoints of an address
Resolve(a) ==
    IF a = "127.0.0.1:24224" THEN 1 ELSE IF a = "localhost:24224" THEN 2 ELSE 0
TagArgs == {[kind |-> "str", s |-> "test"], [kind |-> "String", s |-> "app.log"]}
Times == {"1700000000"}
BufferPaths == {"buffer"}

\* A payload value the textual and the binary encoders cannot represent
Unrepresentable == "Unrepresentable"

\* Application payloads: two encodable ones of different sizes, one that
\* makes the encoder fail
Payloads == {<<"hi">>, <<"hey", "Rust!">>, <<Unrepresentable>>}

Modes == {"json", "msgpack", "forward"}

Ok == "Ok"
ConnectFailure == "ConnectFailure"
WriteFailure == "WriteFailure"
EncodeFailure == "EncodeFailure"
AddressResolutionFailure == "AddressResolutionFailure"
RetryError == "RetryError"
BufferFailure == "BufferFailure"
\* FluentError built by From::from from the retry crate's RetryError
RetryFailure == "RetryFailure"

----------------------------------------------------------------------------
(* RetryConf (retry_conf.rs, not under src/): specification section 3 *)

RetryConfs ==
    [max : 1..MaxAttempts, multiplier : 2..MaxMultiplier,
     store_file : {None} \cup BufferPaths]

RetryConfNew ==
    [max |-> DefaultMaxAttempts, multiplier |-> DefaultMultiplier, store_file |-> None]

\* RetryConf::build: (max_retry, multiplier)
RetryConfBuild(conf) == <<conf.max, conf.multiplier>>

----------------------------------------------------------------------------
(* Fluent construction: fluent.rs:43-78 *)

\* tag.into(): a &str becomes Cow::Borrowed, a String becomes Cow::Owned
TagInto(t) == [cow |-> IF t.kind = "str" THEN "Borrowed" ELSE "Owned", s |-> t.s]

\* new() builds its own configuration instead of RetryConf::new()
FluentNewOtherConf(addr, tag) ==
    [addr |-> addr, tag |-> TagInto(tag),
     conf |-> [RetryConfNew EXCEPT !.max = @ + 1]]

FluentNew(addr, tag) ==
    [addr |-> addr, tag |-> TagInto(tag), conf |-> RetryConfNew]

FluentNewWithConf(addr, tag, conf) ==
    [addr |-> addr, tag |-> TagInto(tag), conf |-> conf]

\* get_tag().into_owned(): the tag's characters as a String
GetTagOwned(c) == c.tag.s

GetAddr(c) == c.addr

\* get_conf hands out a fresh default configuration instead of the stored one
GetConfFresh(c) == RetryConfNew

GetConf(c) == c.conf

----------------------------------------------------------------------------
(* Encoders *)

Encodable(data) == \A i \in 1..Len(data) : data[i] # Unrepresentable

\* Record::new(tag, time, record)
RecordNew(tag, time, data) == [tag |-> tag, time |-> time, record |-> data]

\* serde_json::to_string(&record): an object with named fields
JsonMessage(rec) == <<"{", "tag", rec.tag, "time", rec.time, "record">> \o rec.record \o <<"}">>

\* rmp_serde of a record: the array-of-3 [tag, time, data]
MsgpackMessage(rec) == <<"array3", rec.tag, rec.time>> \o rec.record

\* rmp_serde of a Forward: [tag, [[time, data]]]
ForwardMessage(rec) == <<"array2", rec.tag, "array1", "array2", rec.time>> \o rec.record

BinaryMessage(m, rec) == IF m = "forward" THEN ForwardMessage(rec) ELSE MsgpackMessage(rec)

Prefix(s, n) == SubSeq(s, 1, n)

----------------------------------------------------------------------------
(* State before construction *)

NoConf == [max |-> 0, multiplier |-> 0, store_file |-> None]
NoClient == [addr |-> None, tag |-> [cow |-> None, s |-> None], conf |-> NoConf]
NoCtor == [fn |-> None, addr |-> None, tag |-> [kind |-> None, s |-> None], conf |-> NoConf]
NoRecord == [tag |-> None, time |-> None, record |-> <<>>]
NoFallback == [called |-> 0, err |-> None, wrote |-> None]
NoDial == [made |-> FALSE, reach |-> <<>>, tried |-> 0, ok |-> FALSE]

\* What the buffer file may hold before the call: nothing, or an older record
OldRecord == MsgpackMessage(RecordNew("old", "1600000000", <<"old">>))

Init ==
    /\ pc = "new"
    /\ ctor = NoCtor
    /\ client = NoClient
    /\ mode = None
    /\ record = NoRecord
    /\ tries = 0
    /\ multiplier = 0
    /\ try = 0
    /\ value = None
    /\ results = <<>>
    /\ sendCalls = 0
    /\ conn = "none"
    /\ connsOpened = 0
    /\ message = <<>>
    /\ wr_result = None
    /\ received = <<>>
    /\ sleeps = <<>>
    /\ retryRet = None
    /\ fallback = NoFallback
    /\ bufferFile0 \in {<<>>, <<OldRecord>>}
    /\ bufferFile = bufferFile0
    /\ result = None
    /\ streams = <<>>
    /\ dial = NoDial
    /\ appender = <<>>
    /\ lock = 0
    /\ sharedFile = <<>>

----------------------------------------------------------------------------
(* Construction: fluent.rs:43-63 *)

New ==
    /\ pc = "new"
    /\ UNCHANGED concVars
    /\ UNCHANGED <<streams, dial>>
    /\ \E a \in Addrs, t \in TagArgs :
          /\ ctor' = [fn |-> "new", addr |-> a, tag |-> t, conf |-> NoConf]
          /\ client' = FluentNew(a, t)
    /\ pc' = "ready"
    /\ UNCHANGED <<mode, record, tries, multiplier, try, value, results, sendCalls,
                   conn, connsOpened, message, wr_result, received, sleeps, retryRet,
                   fallback, bufferFile0, bufferFile, result>>

NewWithConf ==
    /\ pc = "new"
    /\ UNCHANGED concVars
    /\ UNCHANGED <<streams, dial>>
    /\ \E a \in Addrs, t \in TagArgs, c \in RetryConfs :
          /\ ctor' = [fn |-> "new_with_conf", addr |-> a, tag |-> t, conf |-> c]
          /\ client' = FluentNewWithConf(a, t, c)
    /\ pc' = "ready"
    /\ UNCHANGED <<mode, record, tries, multiplier, try, value, results, sendCalls,
                   conn, connsOpened, message, wr_result, received, sleeps, retryRet,
                   fallback, bufferFile0, bufferFile, result>>

----------------------------------------------------------------------------
(* post / post_with_time up to the call of retry_exponentially:            *)
(* json.rs:34-49.  post is post_with_time with time::now().  The msgpack   *)
(* and forward post calls (msgpack.rs, forward.rs, not under src/) drive   *)
(* closure_send_as_msgpack / closure_send_as_forward the same way.         *)

Post ==
    /\ pc = "ready"
    /\ UNCHANGED concVars
    /\ UNCHANGED <<streams, dial>>
    /\ \E data \in Payloads, time \in Times, m \in Modes :
          /\ record' = RecordNew(GetTagOwned(client), time, data)
          /\ mode' = m
    /\ tries' = RetryConfBuild(GetConf(client))[1]
    /\ multiplier' = RetryConfBuild(GetConf(client))[2]
    /\ try' = 0
    /\ pc' = "loop"
    /\ UNCHANGED <<ctor, client, value, results, sendCalls, conn, connsOpened,
                   message, wr_result, received, sleeps, retryRet, fallback,
                   bufferFile0, bufferFile, result>>

----------------------------------------------------------------------------
(* retry_exponentially(max_retry, multiplier, closure, |r| r.is_ok()):     *)
(* json.rs:50-55.  The closure is invoked until the condition holds of its *)
(* value or `tries` invocations were made; between two invocations the     *)
(* loop sleeps multiplier^try time units.  Exhaustion is reported as the   *)
(* crate's RetryError, which carries none of the closure's values.         *)

\* the loop allows one invocation more than `tries`
RetryExhaustedLate(t, n) == t = n + 1

\* the loop gives up one invocation early
RetryExhaustedEarly(t, n) == t + 1 >= n

RetryExhausted(t, n) == t = n

\* the condition asks for a failure instead of a success
ConditionFnInverted(v) == v # Ok

\* the condition is never satisfied
ConditionFnNever(v) == FALSE

ConditionFn(v) == v = Ok

NextTry(t) == t + 1

RECURSIVE Pow(_, _)
Pow(b, e) == IF e = 0 THEN 1 ELSE b * Pow(b, e - 1)

Delay(m, t) == Pow(m, t)

RetryGiveUp ==
    /\ pc = "loop"
    /\ UNCHANGED concVars
    /\ UNCHANGED <<streams, dial>>
    /\ RetryExhausted(try, tries)
    /\ retryRet' = RetryError
    /\ pc' = "match"
    /\ UNCHANGED <<ctor, client, mode, record, tries, multiplier, try, value, results,
                   sendCalls, conn, connsOpened, message, wr_result, received, sleeps,
                   fallback, bufferFile0, bufferFile, result>>

\* the loop calls the closure: a fresh invocation, no stream yet
Invoke ==
    /\ pc = "loop"
    /\ UNCHANGED concVars
    /\ ~RetryExhausted(try, tries)
    /\ sendCalls' = sendCalls + 1
    /\ conn' = "none"
    /\ message' = <<>>
    /\ wr_result' = None
    /\ received' = <<>>
    /\ dial' = NoDial
    /\ streams' = streams
    /\ pc' = "connect"
    /\ UNCHANGED <<ctor, client, mode, record, tries, multiplier, try, value, results,
                   connsOpened, sleeps, retryRet, fallback, bufferFile0, bufferFile,
                   result>>

\* the loop takes the closure's value; the closure's locals are gone
Condition ==
    /\ pc = "cond"
    /\ UNCHANGED concVars
    /\ IF ConditionFn(value)
          THEN /\ retryRet' = Ok
               /\ pc' = "match"
          ELSE /\ retryRet' = retryRet
               /\ pc' = "wait"
    /\ message' = <<>>
    /\ wr_result' = None
    /\ received' = <<>>
    /\ dial' = NoDial
    /\ UNCHANGED <<ctor, client, mode, record, tries, multiplier, try, value, results,
                   sendCalls, conn, connsOpened, sleeps, fallback, bufferFile0,
                   bufferFile, result, streams>>

\* the loop goes on to the next invocation without sleeping
WaitNoSleep ==
    /\ pc = "wait"
    /\ try + 1 < tries
    /\ try' = NextTry(try)
    /\ pc' = "loop"
    /\ UNCHANGED <<ctor, client, mode, record, tries, multiplier, value, results,
                   sendCalls, conn, connsOpened, message, wr_result, received, sleeps,
                   retryRet, fallback, bufferFile0, bufferFile, result, streams, dial,
                   appender, lock, sharedFile>>

\* the sleep between two invocations
Wait ==
    /\ pc = "wait"
    /\ UNCHANGED concVars
    /\ UNCHANGED <<streams, dial>>
    /\ try + 1 < tries
    /\ sleeps' = Append(sleeps, Delay(multiplier, try))
    /\ try' = NextTry(try)
    /\ pc' = "loop"
    /\ UNCHANGED <<ctor, client, mode, record, tries, multiplier, value, results,
                   sendCalls, conn, connsOpened, message, wr_result, received,
                   retryRet, fallback, bufferFile0, bufferFile, result>>

\* after the last invocation failed: whether the crate's loop sleeps once more
\* before it reports exhaustion is internal to the crate, so both are allowed
WaitLast ==
    /\ pc = "wait"
    /\ UNCHANGED concVars
    /\ UNCHANGED <<streams, dial>>
    /\ ~(try + 1 < tries)
    /\ \E s \in BOOLEAN :
          sleeps' = IF s THEN Append(sleeps, Delay(multiplier, try)) ELSE sleeps
    /\ try' = NextTry(try)
    /\ pc' = "loop"
    /\ UNCHANGED <<ctor, client, mode, record, tries, multiplier, value, results,
                   sendCalls, conn, connsOpened, message, wr_result, received,
                   retryRet, fallback, bufferFile0, bufferFile, result>>

----------------------------------------------------------------------------
(* The transport closures: fluent.rs:82-143 *)

\* the stream is kept alive past the closure (handed elsewhere, forgotten)
DropLeak(c) == c

\* drop(stream), explicit or at scope exit: the socket is closed
Drop(c) == IF c = "open" THEN "closed" ELSE c

\* index of the first candidate that accepts a connection, 0 when none does
FirstReachable(reach) ==
    IF \E i \in 1..Len(reach) : reach[i]
       THEN CHOOSE i \in 1..Len(reach) : reach[i] /\ \A j \in 1..(i - 1) : ~reach[j]
       ELSE 0

\* connect gives up after the first candidate
TcpConnectFirstOnly(reach) ==
    [tried |-> IF Len(reach) = 0 THEN 0 ELSE 1,
     ok |-> Len(reach) >= 1 /\ reach[1]]

\* net::TcpStream::connect(addr) (fluent.rs:86, 108, 129) with addr: ToSocketAddrs:
\* each resolved address is tried in turn until one connects; with none
\* connecting the call fails, with none resolved no connection is attempted
TcpConnect(reach) ==
    [tried |-> IF FirstReachable(reach) = 0 THEN Len(reach) ELSE FirstReachable(reach),
     ok |-> FirstReachable(reach) # 0]

\* the stream list with its last stream in state c
CloseLast(ss, c) ==
    IF Len(ss) = 0 THEN ss ELSE [ss EXCEPT ![Len(ss)].open = (c = "open")]

\* a stream opened by an earlier invocation is kept and used again
ConnectPooled ==
    /\ pc = "connect"
    /\ conn' = "open"
    /\ IF Len(streams) >= 1
          THEN /\ streams' = CloseLast(streams, "open")
               /\ UNCHANGED connsOpened
          ELSE /\ streams' = Append(streams, [attempt |-> sendCalls, open |-> TRUE])
               /\ connsOpened' = connsOpened + 1
    /\ pc' = IF mode = "json" THEN "encode" ELSE "serialize"
    /\ UNCHANGED <<ctor, client, mode, record, tries, multiplier, try, value, results,
                   sendCalls, message, wr_result, received, sleeps, retryRet, fallback,
                   bufferFile0, bufferFile, result, dial, appender, lock, sharedFile>>

\* TcpStream::connect(addr): fluent.rs:86-87, 97-99 (108-109, 118-120; 129-130, 139-141)
Connect ==
    /\ pc = "connect"
    /\ UNCHANGED concVars
    /\ \E reach \in [1..Resolve(GetAddr(client)) -> BOOLEAN] :
          LET o == TcpConnect(reach)
          IN  /\ dial' = [made |-> TRUE, reach |-> reach, tried |-> o.tried, ok |-> o.ok]
              /\ IF o.ok
                    THEN /\ conn' = "open"
                         /\ connsOpened' = connsOpened + 1
                         /\ streams' = Append(streams, [attempt |-> sendCalls, open |-> TRUE])
                         /\ pc' = IF mode = "json" THEN "encode" ELSE "serialize"
                         /\ UNCHANGED <<value, results>>
                    ELSE /\ value' = IF Len(reach) = 0 THEN AddressResolutionFailure
                                                       ELSE ConnectFailure
                         /\ results' = Append(results, IF Len(reach) = 0
                                                          THEN AddressResolutionFailure
                                                          ELSE ConnectFailure)
                         /\ pc' = "cond"
                         /\ UNCHANGED <<conn, connsOpened, streams>>
    /\ UNCHANGED <<ctor, client, mode, record, tries, multiplier, try, sendCalls,
                   message, wr_result, received, sleeps, retryRet, fallback,
                   bufferFile0, bufferFile, result>>

\* serde_json::to_string(&record)?  (fluent.rs:89): on an encoder error the
\* closure returns at once and the stream is dropped as it leaves scope
JsonEncode ==
    /\ pc = "encode"
    /\ UNCHANGED concVars
    /\ UNCHANGED dial
    /\ IF Encodable(record.record)
          THEN /\ message' = JsonMessage(record)
               /\ pc' = "write"
               /\ UNCHANGED <<value, results, conn, streams>>
          ELSE /\ value' = EncodeFailure
               /\ results' = Append(results, EncodeFailure)
               /\ conn' = Drop(conn)
               /\ streams' = CloseLast(streams, Drop(conn))
               /\ pc' = "cond"
               /\ UNCHANGED message
    /\ UNCHANGED <<ctor, client, mode, record, tries, multiplier, try, sendCalls,
                   connsOpened, wr_result, received, sleeps, retryRet, fallback,
                   bufferFile0, bufferFile, result>>

\* Write::write(&bytes): an error, or Ok(n) with n of the bytes accepted
WriteOutcomes(msg) ==
    {[ok |-> FALSE, n |-> 0]} \cup {[ok |-> TRUE, n |-> k] : k \in 1..Len(msg)}

\* stream.write(&message.into_bytes())  (fluent.rs:90)
JsonWrite ==
    /\ pc = "write"
    /\ UNCHANGED concVars
    /\ UNCHANGED <<streams, dial>>
    /\ \E w \in WriteOutcomes(message) :
          /\ wr_result' = IF w.ok THEN Ok ELSE WriteFailure
          /\ received' = Prefix(message, w.n)
    /\ pc' = "drop"
    /\ UNCHANGED <<ctor, client, mode, record, tries, multiplier, try, value, results,
                   sendCalls, conn, connsOpened, message, sleeps, retryRet, fallback,
                   bufferFile0, bufferFile, result>>

\* the number of leading values of the message the binary encoder emits
\* before it meets a value it cannot represent
EncodablePrefixLen(msg) ==
    IF \E i \in 1..Len(msg) : msg[i] = Unrepresentable
       THEN (CHOOSE i \in 1..Len(msg) :
                /\ msg[i] = Unrepresentable
                /\ \A j \in 1..(i - 1) : msg[j] # Unrepresentable) - 1
       ELSE Len(msg)

\* record.serialize(&mut Serializer::new(&mut stream)): the encoder writes
\* each value in full as it goes; it stops at an encoder error or at the
\* first write the stream refuses
SerializeOutcomes(msg) ==
    {[ok |-> FALSE, n |-> k] : k \in 0..(EncodablePrefixLen(msg) - 1)}
    \cup (IF EncodablePrefixLen(msg) = Len(msg)
             THEN {[ok |-> TRUE, n |-> Len(msg)]}
             ELSE {[ok |-> FALSE, n |-> EncodablePrefixLen(msg)]})

\* fluent.rs:111 and fluent.rs:132
Serialize ==
    /\ pc = "serialize"
    /\ UNCHANGED concVars
    /\ UNCHANGED <<streams, dial>>
    /\ message' = BinaryMessage(mode, record)
    /\ \E w \in SerializeOutcomes(BinaryMessage(mode, record)) :
          /\ wr_result' = IF w.ok THEN Ok ELSE EncodeFailure
          /\ received' = Prefix(BinaryMessage(mode, record), w.n)
    /\ pc' = "drop"
    /\ UNCHANGED <<ctor, client, mode, record, tries, multiplier, try, value, results,
                   sendCalls, conn, connsOpened, sleeps, retryRet, fallback,
                   bufferFile0, bufferFile, result>>

\* drop(stream)  (fluent.rs:91, 112, 133)
DropStream ==
    /\ pc = "drop"
    /\ UNCHANGED concVars
    /\ UNCHANGED dial
    /\ conn' = Drop(conn)
    /\ streams' = CloseLast(streams, Drop(conn))
    /\ pc' = "result"
    /\ UNCHANGED <<ctor, client, mode, record, tries, multiplier, try, value, results,
                   sendCalls, connsOpened, message, wr_result, received, sleeps,
                   retryRet, fallback, bufferFile0, bufferFile, result>>

\* if wr_result.is_err() { return Err(..) } return Ok(())  (fluent.rs:92-95)
ClosureResult(wr) == IF wr # Ok THEN wr ELSE Ok

ClosureReturn ==
    /\ pc = "result"
    /\ UNCHANGED concVars
    /\ UNCHANGED <<streams, dial>>
    /\ value' = ClosureResult(wr_result)
    /\ results' = Append(results, ClosureResult(wr_result))
    /\ pc' = "cond"
    /\ UNCHANGED <<ctor, client, mode, record, tries, multiplier, try, sendCalls,
                   conn, connsOpened, message, wr_result, received, sleeps, retryRet,
                   fallback, bufferFile0, bufferFile, result>>

----------------------------------------------------------------------------
(* store_buffer::maybe_write_events(conf, record, err) (store_buffer.rs,   *)
(* not under src/): specification section 4.5.  With a buffer path the     *)
(* record is appended in the binary encoding and the call succeeds, unless *)
(* the file cannot be written; without one the error is handed back.       *)

MaybeWriteEvents(conf, rec, err, file, diskOk) ==
    IF conf.store_file # None
       THEN IF diskOk
               THEN [result |-> Ok, file |-> Append(file, MsgpackMessage(rec)), wrote |-> "ok"]
               ELSE [result |-> BufferFailure, file |-> file, wrote |-> "failed"]
       ELSE [result |-> err, file |-> file, wrote |-> None]

\* From::from(err) of the retry crate's error  (json.rs:57)
FromRetryError(e) == IF e = RetryError THEN RetryFailure ELSE e

\* the Err arm returns the delivery error whatever the fallback did
PostMatchKeepErr(ret, fb) == IF ret = Ok THEN Ok ELSE RetryFailure

\* the Err arm swallows the fallback's result
PostMatchSwallow(ret, fb) == Ok

\* match .. { Ok(_) => Ok(()), Err(err) => maybe_write_events(..) }  (json.rs:56-58)
PostMatch(ret, fb) == IF ret = Ok THEN Ok ELSE fb.result

\* the Ok arm calls the buffer fallback as well
PostOkCallsFallback ==
    /\ pc = "match"
    /\ retryRet = Ok
    /\ fallback' = [called |-> fallback.called + 1, err |-> None, wrote |-> None]
    /\ result' = Ok
    /\ pc' = "done"
    /\ UNCHANGED <<ctor, client, mode, record, tries, multiplier, try, value, results,
                   sendCalls, conn, connsOpened, message, wr_result, received, sleeps,
                   retryRet, bufferFile0, bufferFile, streams, dial, appender, lock,
                   sharedFile>>

PostOk ==
    /\ pc = "match"
    /\ UNCHANGED concVars
    /\ UNCHANGED <<streams, dial>>
    /\ retryRet = Ok
    /\ result' = PostMatch(retryRet, [result |-> None])
    /\ pc' = "done"
    /\ UNCHANGED <<ctor, client, mode, record, tries, multiplier, try, value, results,
                   sendCalls, conn, connsOpened, message, wr_result, received, sleeps,
                   retryRet, fallback, bufferFile0, bufferFile>>

PostErr ==
    /\ pc = "match"
    /\ UNCHANGED concVars
    /\ UNCHANGED <<streams, dial>>
    /\ retryRet # Ok
    /\ \E diskOk \in BOOLEAN :
          LET fb == MaybeWriteEvents(GetConf(client), record, FromRetryError(retryRet),
                                     bufferFile, diskOk)
          IN  /\ fallback' = [called |-> fallback.called + 1,
                              err |-> FromRetryError(retryRet), wrote |-> fb.wrote]
              /\ bufferFile' = fb.file
              /\ result' = PostMatch(retryRet, fb)
    /\ pc' = "done"
    /\ UNCHANGED <<ctor, client, mode, record, tries, multiplier, try, value, results,
                   sendCalls, conn, connsOpened, message, wr_result, received, sleeps,
                   retryRet, bufferFile0>>

----------------------------------------------------------------------------

Next ==
    \/ New
    \/ NewWithConf
    \/ Post
    \/ RetryGiveUp
    \/ Invoke
    \/ Connect
    \/ JsonEncode
    \/ JsonWrite
    \/ Serialize
    \/ DropStream
    \/ ClosureReturn
    \/ Condition
    \/ Wait
    \/ WaitLast
    \/ PostOk
    \/ PostErr

Spec == Init /\ [][Next]_vars

\* every step of a call is a bounded blocking operation, so a call that has
\* a step to take takes it
FairSpec == Spec /\ WF_vars(Next)

----------------------------------------------------------------------------
(* Properties *)

Done == pc = "done"

Constructed == pc # "new"

MaxAttemptsOf == client.conf.max

AllFailed == \A i \in 1..Len(results) : results[i] # Ok

\* all max_attempts attempts were made and every one failed
Exhausted == Len(results) = MaxAttemptsOf /\ AllFailed

FirstSucceeded == Len(results) >= 1 /\ results[1] = Ok

LastResult == results[Len(results)]

\* the record of this post call as the buffer file holds it: the tag given at
\* construction, the time and payload given to post
BufferedRecord ==
    MsgpackMessage([tag |-> ctor.tag.s, time |-> record.time, record |-> record.record])

\* C1: when every send attempt of a post call fails, the send function is
\* invoked exactly max_attempts times in that call: never more at any point of
\* the call, and exactly that many once the call has returned.
C1_AllFailInvokesExactlyN ==
    /\ sendCalls <= MaxAttemptsOf
    /\ (Done /\ AllFailed) => (sendCalls = MaxAttemptsOf /\ Len(results) = MaxAttemptsOf)

C1_Witness ==
    Done /\ AllFailed /\ MaxAttemptsOf = 3 /\ sendCalls = 3

\* C2: if the first send attempt succeeds, the send function is invoked exactly
\* once whatever max_attempts is, post returns success and the buffer fallback
\* is never invoked.
C2_FirstSuccessSingleInvocation ==
    FirstSucceeded =>
        /\ sendCalls = 1
        /\ fallback.called = 0
        /\ bufferFile = bufferFile0
        /\ Done => result = Ok

C2_Witness ==
    Done /\ FirstSucceeded /\ MaxAttemptsOf = 3 /\ result = Ok

\* C4: when all max_attempts attempts fail and a buffer path is configured,
\* post returns success and the buffer file is the old file with exactly one
\* record appended, carrying the tag and payload of the call (the file being
\* writable; a failing buffer write is the case of C19).
C4_ExhaustedBuffered ==
    (Done /\ Exhausted /\ client.conf.store_file # None /\ fallback.wrote # "failed") =>
        /\ result = Ok
        /\ bufferFile = Append(bufferFile0, BufferedRecord)

C4_Witness ==
    /\ Done /\ Exhausted /\ client.conf.store_file # None
    /\ fallback.wrote = "ok" /\ MaxAttemptsOf = 2 /\ bufferFile0 # <<>>

\* C5: when all max_attempts attempts fail and no buffer path is configured,
\* post returns an error, the one handed to the fallback, and the buffer file
\* is as it was before the call.
C5_ExhaustedNoBuffer ==
    (Done /\ Exhausted /\ client.conf.store_file = None) =>
        /\ result \notin {Ok, None}
        /\ result = fallback.err
        /\ bufferFile = bufferFile0

C5_Witness ==
    /\ Done /\ Exhausted /\ client.conf.store_file = None
    /\ MaxAttemptsOf = 2 /\ bufferFile0 # <<>> /\ result # Ok

\* C6: when attempts are exhausted, the error handed to the buffer fallback,
\* and returned to the caller when no buffer path is set, is the error of the
\* last failed attempt.
C6_LastErrorSurfaces ==
    (Done /\ Exhausted) =>
        /\ fallback.err = LastResult
        /\ client.conf.store_file = None => result = LastResult

\* C7: outside the body of a send invocation no connection is open: a
\* connection the invocation opened is closed before it returns, on the write
\* path and on the encode-failure path of each of the three closures.
C7_ClosedBeforeReturn ==
    conn = "open" => pc \in {"encode", "serialize", "write", "drop"}

C7_Witness ==
    pc = "cond" /\ mode = "json" /\ value = EncodeFailure /\ conn = "closed"

\* C8: a send invocation returns success only if the connection accepted the
\* whole encoded payload.
C8_SuccessMeansFullWrite ==
    (pc = "cond" /\ value = Ok) => received = message

Delivered ==
    /\ result = Ok /\ Len(results) >= 1 /\ LastResult = Ok
    /\ fallback.called = 0 /\ bufferFile = bufferFile0

Buffered ==
    /\ result = Ok /\ Exhausted
    /\ fallback.called = 1 /\ bufferFile = Append(bufferFile0, BufferedRecord)

Failed ==
    /\ result \notin {Ok, None} /\ Exhausted
    /\ fallback.called = 1 /\ bufferFile = bufferFile0

ExactlyOneOutcome ==
    \/ Delivered /\ ~Buffered /\ ~Failed
    \/ Buffered /\ ~Delivered /\ ~Failed
    \/ Failed /\ ~Delivered /\ ~Buffered

\* C9: every post call terminates, and when it has, exactly one of three
\* outcomes holds: delivered, exhausted and buffered, exhausted and failed.
C9_TerminatesInOneOutcome ==
    /\ <>Done
    /\ [](Done => ExactlyOneOutcome)

C9_Witness ==
    Done /\ Buffered /\ MaxAttemptsOf = 3 /\ results[1] # results[3]

NoIO ==
    /\ conn = "none" /\ connsOpened = 0 /\ sendCalls = 0
    /\ received = <<>> /\ bufferFile = bufferFile0

\* C10: construction performs no I/O; new(address, tag) yields a client
\* holding the given address and tag with the default configuration, equal to
\* new_with_conf(address, tag, default); new_with_conf stores the supplied
\* configuration unchanged.
C10_ConstructionPure ==
    pc = "ready" =>
        /\ NoIO
        /\ GetAddr(client) = ctor.addr
        /\ GetTagOwned(client) = ctor.tag.s
        /\ ctor.fn = "new" =>
              /\ GetConf(client) = RetryConfNew
              /\ client = FluentNewWithConf(ctor.addr, ctor.tag, RetryConfNew)
        /\ ctor.fn = "new_with_conf" => GetConf(client) = ctor.conf

C10_Witness ==
    pc = "ready" /\ ctor.fn = "new" /\ ctor.tag.kind = "String"

\* the configuration the constructor call supplied
GivenConf == IF ctor.fn = "new" THEN RetryConfNew ELSE ctor.conf

\* C12: a post call leaves the client's address, tag and configuration
\* unchanged: during and after the delivery the client holds what construction
\* supplied, the retry loop runs with that max_attempts and multiplier, and the
\* fallback acts on that buffer path.
C12_PostLeavesClientUnchanged ==
    /\ [](pc \notin {"new", "ready"} =>
            /\ GetAddr(client) = ctor.addr
            /\ GetTagOwned(client) = ctor.tag.s
            /\ client.conf = GivenConf
            /\ tries = GivenConf.max
            /\ multiplier = GivenConf.multiplier
            /\ fallback.wrote # None => GivenConf.store_file # None
            /\ (fallback.called = 1 /\ fallback.wrote = None) => GivenConf.store_file = None)
    /\ [][pc # "new" => client' = client]_vars

C12_Witness ==
    /\ Done /\ ctor.fn = "new_with_conf" /\ ctor.conf.max = 3 /\ ctor.conf.multiplier = 3
    /\ ctor.conf.store_file # None /\ fallback.wrote = "ok"

\* C13: if attempt k is the first to succeed, it is the last invocation: exactly
\* k invocations were made, k <= max_attempts, the loop has returned (no further
\* attempt, no sleep pending), the fallback was not invoked and post returns
\* success.
C13_FirstSuccessAtKEndsCall ==
    \A k \in 1..Len(results) :
        results[k] = Ok =>
            /\ k = Len(results)
            /\ sendCalls = k
            /\ k <= MaxAttemptsOf
            /\ pc \in {"cond", "match", "done"}
            /\ fallback.called = 0
            /\ bufferFile = bufferFile0
            /\ Done => result = Ok

C13_Witness ==
    Done /\ Len(results) = 3 /\ results[3] = Ok /\ results[1] # Ok /\ result = Ok

\* C14: the buffer fallback is invoked at most once per post call, and only
\* when all max_attempts attempts were made and every one failed.
C14_FallbackOnlyAfterExhaustion ==
    /\ fallback.called <= 1
    /\ fallback.called = 1 => (Exhausted /\ sendCalls = MaxAttemptsOf /\ Done)
    /\ (pc # "done" \/ ~Exhausted) => bufferFile = bufferFile0

C14_Witness ==
    fallback.called = 1 /\ MaxAttemptsOf = 3 /\ results[2] = WriteFailure

OpenStreams == {i \in 1..Len(streams) : streams[i].open}

\* C15: within one post call at most one connection is open at any time, and
\* when attempt k+1 is about to connect, the k earlier attempts have returned
\* failures, their connections are closed and k sleeps have been taken.
C15_AttemptsSequential ==
    /\ Cardinality(OpenStreams) <= 1
    /\ (pc = "connect" /\ sendCalls >= 2) =>
          /\ Len(results) = sendCalls - 1
          /\ AllFailed
          /\ OpenStreams = {}
          /\ conn # "open"
          /\ Len(sleeps) = sendCalls - 1

C15_Witness ==
    pc = "connect" /\ sendCalls = 3 /\ Len(streams) = 2 /\ Len(sleeps) = 2

\* C16: each send invocation opens at most one connection and none is used
\* again: connections opened <= invocations <= max_attempts, no two streams
\* belong to one invocation, and an invocation that encodes or writes does so
\* on the open stream it opened itself.
C16_OneFreshConnectionPerInvocation ==
    /\ connsOpened <= sendCalls
    /\ sendCalls <= MaxAttemptsOf
    /\ Len(streams) = connsOpened
    /\ \A i, j \in 1..Len(streams) : i < j => streams[i].attempt < streams[j].attempt
    /\ pc \in {"encode", "serialize", "write"} =>
          /\ conn = "open"
          /\ Len(streams) >= 1
          /\ streams[Len(streams)].attempt = sendCalls
          /\ streams[Len(streams)].open

C16_Witness ==
    pc = "write" /\ sendCalls = 2 /\ Len(streams) = 2 /\ streams[1].attempt = 1

\* C18: in a text-mode post no TCP connection is opened for a record whose
\* encoding fails, and an EncodeFailure is not retried.
C18_EncodeBeforeTransport ==
    (mode = "json" /\ ~Encodable(record.record)) =>
        /\ connsOpened = 0
        /\ Cardinality({i \in 1..Len(results) : results[i] = EncodeFailure}) <= 1

\* C19: when retries are exhausted, a buffer path is configured and the buffer
\* write fails, post returns an error (the delivery error or a buffering
\* error), not success, and the buffer file is as it was.
C19_BufferWriteFailureSurfaces ==
    (Done /\ Exhausted /\ client.conf.store_file # None /\ fallback.wrote = "failed") =>
        /\ result \in {fallback.err, BufferFailure}
        /\ result \notin {Ok, None}
        /\ bufferFile = bufferFile0

C19_Witness ==
    /\ Done /\ Exhausted /\ client.conf.store_file # None /\ fallback.wrote = "failed"
    /\ result # Ok

\* C20 as stated: a send invocation attempts a connection to the first
\* candidate only; if that fails it fails with ConnectFailure without trying
\* the others, and with no candidate it fails with AddressResolutionFailure
\* without any connection attempt.
C20_FirstCandidateOnly ==
    dial.made =>
        /\ dial.tried <= 1
        /\ (Len(dial.reach) >= 1 /\ ~dial.reach[1]) => (~dial.ok /\ value = ConnectFailure)
        /\ Len(dial.reach) = 0 =>
              (dial.tried = 0 /\ ~dial.ok /\ value = AddressResolutionFailure)

\* C20, amended: a send invocation tries the candidates in resolution order
\* until one accepts the connection and uses that one; it fails with a
\* ConnectFailure only when every candidate refused, and with no candidate it
\* fails with AddressResolutionFailure without any connection attempt.
C20_CandidatesTriedInOrder ==
    dial.made =>
        /\ dial.ok <=> (\E i \in 1..Len(dial.reach) : dial.reach[i])
        /\ dial.ok =>
              /\ dial.reach[dial.tried]
              /\ \A j \in 1..(dial.tried - 1) : ~dial.reach[j]
              /\ streams # <<>> /\ streams[Len(streams)].attempt = sendCalls
        /\ ~dial.ok =>
              /\ dial.tried = Len(dial.reach)
              /\ pc = "cond" /\ conn = "none"
              /\ value = IF Len(dial.reach) = 0 THEN AddressResolutionFailure
                                                ELSE ConnectFailure

C20_Witness ==
    dial.made /\ dial.reach = <<FALSE, TRUE>> /\ dial.ok /\ dial.tried = 2 /\ conn = "open"

----------------------------------------------------------------------------
(* Concurrent post calls, each on a client of its own, all configured with  *)
(* the same buffer path.  A call either delivers or exhausts its retries    *)
(* and reaches maybe_write_events (json.rs:56-58).  The append itself is    *)
(* store_buffer.rs, not under src/; specification sections 4.5 and 5: the   *)
(* serialized record is appended under an exclusive append lock, written    *)
(* value by value, flushed, and the lock released.                          *)

Callers == 1..NumCallers

\* the records concurrent calls may carry
CallerRecords ==
    {RecordNew(t.s, time, d) : t \in TagArgs, time \in Times,
                               d \in {x \in Payloads : Encodable(x)}}

\* the lock is ignored: any caller may start writing at any time
CanAcquireAlways(l) == TRUE

\* the exclusive append lock is free
CanAcquire(l) == l = 0

ConcInit ==
    /\ pc = "new"
    /\ ctor = NoCtor
    /\ client = NoClient
    /\ mode = None
    /\ record = NoRecord
    /\ tries = 0
    /\ multiplier = 0
    /\ try = 0
    /\ value = None
    /\ results = <<>>
    /\ sendCalls = 0
    /\ conn = "none"
    /\ connsOpened = 0
    /\ message = <<>>
    /\ wr_result = None
    /\ received = <<>>
    /\ sleeps = <<>>
    /\ retryRet = None
    /\ fallback = NoFallback
    /\ bufferFile0 = <<>>
    /\ bufferFile = <<>>
    /\ result = None
    /\ streams = <<>>
    /\ dial = NoDial
    /\ appender \in [Callers -> [pc : {"retrying"}, rec : CallerRecords, pos : {0}]]
    /\ lock = 0
    /\ sharedFile = <<>>

\* retry_exponentially returned Ok: the call ends without touching the file
CallDelivers(i) ==
    /\ appender[i].pc = "retrying"
    /\ appender' = [appender EXCEPT ![i].pc = "done"]
    /\ UNCHANGED <<lock, sharedFile>>
    /\ UNCHANGED callVars

\* retry_exponentially returned Err: the call enters maybe_write_events
CallExhausts(i) ==
    /\ appender[i].pc = "retrying"
    /\ appender' = [appender EXCEPT ![i].pc = "fallback"]
    /\ UNCHANGED <<lock, sharedFile>>
    /\ UNCHANGED callVars

AcquireLock(i) ==
    /\ appender[i].pc = "fallback"
    /\ CanAcquire(lock)
    /\ lock' = i
    /\ appender' = [appender EXCEPT ![i].pc = "writing"]
    /\ UNCHANGED sharedFile
    /\ UNCHANGED callVars

\* one more value of the serialized record reaches the file
AppendValue(i) ==
    /\ appender[i].pc = "writing"
    /\ appender[i].pos < Len(MsgpackMessage(appender[i].rec))
    /\ sharedFile' = Append(sharedFile,
                            [who |-> i, tok |-> MsgpackMessage(appender[i].rec)[appender[i].pos + 1]])
    /\ appender' = [appender EXCEPT ![i].pos = @ + 1]
    /\ UNCHANGED lock
    /\ UNCHANGED callVars

\* the record is written and flushed: the lock is released, the call returns
ReleaseLock(i) ==
    /\ appender[i].pc = "writing"
    /\ appender[i].pos = Len(MsgpackMessage(appender[i].rec))
    /\ lock' = IF lock = i THEN 0 ELSE lock
    /\ appender' = [appender EXCEPT ![i].pc = "done"]
    /\ UNCHANGED sharedFile
    /\ UNCHANGED callVars

ConcNext ==
    \E i \in Callers :
        \/ CallDelivers(i)
        \/ CallExhausts(i)
        \/ AcquireLock(i)
        \/ AppendValue(i)
        \/ ReleaseLock(i)

ConcSpec == ConcInit /\ [][ConcNext]_vars

\* the values a caller has written, in file order
WrittenBy(i) ==
    LET idx == {k \in 1..Len(sharedFile) : sharedFile[k].who = i}
        F[k \in 0..Len(sharedFile)] ==
            IF k = 0 THEN <<>>
            ELSE IF k \in idx THEN Append(F[k - 1], sharedFile[k].tok) ELSE F[k - 1]
    IN  F[Len(sharedFile)]

\* C11: when post calls exhaust their retries concurrently and append to the
\* same buffer file, every record occupies a contiguous region of the file: in
\* no reachable state do values of another record lie between two values of
\* one record, and what a call has written is a prefix of its record, the
\* whole record once the call has returned.
C11_AppendsDoNotInterleave ==
    /\ \A a, b, c \in 1..Len(sharedFile) :
          (a < b /\ b < c /\ sharedFile[a].who = sharedFile[c].who)
              => sharedFile[b].who = sharedFile[a].who
    /\ \A i \in DOMAIN appender :
          /\ WrittenBy(i) = Prefix(MsgpackMessage(appender[i].rec), appender[i].pos)
          /\ (appender[i].pc = "done" /\ appender[i].pos > 0)
                => WrittenBy(i) = MsgpackMessage(appender[i].rec)

C11_Witness ==
    /\ Len(sharedFile) >= 2
    /\ sharedFile[1].who = 2
    /\ appender[2].pc = "done"
    /\ appender[1].pc = "writing" /\ appender[1].pos >= 1
    /\ appender[1].pos < Len(MsgpackMessage(appender[1].rec))

====
